---- MODULE Spec2Model ----
(***************************************************************************)
(* Minerva Q&A recommendation server: the Express handlers of              *)
(* src/src/server.ts (in-memory userSessions map, search dispatch), the    *)
(* Supabase-backed services (sessionService.ts, searchHistoryService,      *)
(* auth middleware) and the user_search_history cleanup trigger of         *)
(* docs/DATABASE_SCHEMA.md.                                                *)
(***************************************************************************)
EXTENDS Integers, Sequences, FiniteSets, TLC

VARIABLES
    userSessions,   \* server.ts: const userSessions = new Map<string, SessionData>()
    http,           \* per client connection: the request in flight and its last response
    clock,          \* wall clock / NOW(), in hours
    env,            \* process.env SUPABASE_URL / SUPABASE_SERVICE_ROLE_KEY: "ok" | "missing" | "invalid"
    user_sessions,  \* table public.user_sessions, keyed by session_id
    store,          \* per caller of sessionService: the call in progress and its result
    history,        \* table public.user_search_history (committed rows)
    hist,           \* per caller of saveSearchHistory: the call / transaction in progress
    nextRowId,      \* insertion sequence of user_search_history rows
    auth            \* per request passing through requireAuth: progress and outcome

vars == <<userSessions, http, clock, env, user_sessions, store, history, hist, nextRowId, auth>>

serverVars == <<userSessions, http>>
storeVars == <<user_sessions, store>>
histVars == <<history, hist, nextRowId>>

----------------------------------------------------------------------------
(* Generic helpers for JavaScript objects / Maps modelled as functions.    *)

\* Map.set(k, v) / obj[k] = v
MapSet(m, k, v) == [x \in (DOMAIN m) \cup {k} |-> IF x = k THEN v ELSE m[x]]

\* {} : the empty object
EmptyObj == [x \in {} |-> ""]

\* all objects with keys among K and values in V
Objects(K, V) == UNION {[D -> V] : D \in SUBSET K}

Min(a, b) == IF a <= b THEN a ELSE b

----------------------------------------------------------------------------
(* Questions (src/src/types/question.types.ts)                             *)

Q(id, text, answers) == [id |-> id, text |-> text, answers |-> answers]

Q1 == Q("q1", "Preferred fit?", <<"A", "B">>)
Q2 == Q("q2", "Budget range?", <<"A", "B">>)

\* question lists the question engine may answer with
EngineLists == {<<Q1, Q2>>}

QuestionIds(questions) == {questions[i].id : i \in 1..Len(questions)}

----------------------------------------------------------------------------
(* HTTP clients of server.ts                                               *)

Clients == {"c1", "c2"}
SessionIds == {"s1", "s2"}
Queries == {"shoes"}

\* Authorization header each client sends with its requests ("" = no header):
\* c1 is a signed-out browser, c2 is signed in as u1. server.ts never reads it.
ClientHeader(c) == IF c = "c2" THEN "Bearer tok_u1" ELSE ""

\* user a bearer token belongs to ("" = none)
TokenUser(header) == IF header = "Bearer tok_u1" THEN "u1"
                     ELSE IF header = "Bearer tok_u2" THEN "u2" ELSE ""

AnswerKeys == {"q1", "q2", "zz"}
AnswerValues == {"A", "B"}
\* req.body.answers of POST /submit-answers
BodyAnswers ==
    {a \in Objects({"q1", "q2"}, AnswerValues) : "q2" \in DOMAIN a => a["q2"] = "B"}
    \cup {MapSet(a, "zz", "A") : a \in Objects({"q1"}, AnswerValues)}
NoAnswers == EmptyObj

NoResp == [status |-> 0, success |-> FALSE, error |-> "", message |-> "",
           sessionId |-> "", questions |-> <<>>, searchResults |-> <<>>]

NoBody == [query |-> "", answers |-> EmptyObj, questions |-> <<>>, user_id |-> "null"]

\* warned: the question ids console.warn reported as not found (server.ts:170)
IdleConn == [pc |-> "idle", route |-> "", sessionId |-> "",
             searchBody |-> NoBody, warned |-> {}, resp |-> NoResp]

\* res.status(s).json({...}) ends the request
Respond(c, route, sid, r) ==
    http' = [http EXCEPT ![c] = [pc |-> "idle", route |-> route, sessionId |-> sid,
                                 searchBody |-> NoBody, warned |-> {}, resp |-> r]]

----------------------------------------------------------------------------
(* Question Source Adapter (src/src/services/questionGenerator.ts)         *)

\* what the fetch of PYTHON_SERVICE_URL can produce
Outcome(transport, ok, success, error, hasList, list) ==
    [transport |-> transport, ok |-> ok, success |-> success, error |-> error,
     hasList |-> hasList, list |-> list]

EngineOutcomes ==
    {Outcome("throw", FALSE, FALSE, "fetch failed", FALSE, <<>>),
     Outcome("ok", FALSE, FALSE, "quota exceeded", FALSE, <<>>),
     Outcome("ok", TRUE, FALSE, "", FALSE, <<>>)}
    \cup {Outcome("ok", TRUE, TRUE, "", TRUE, l) : l \in EngineLists}

\* mutant: only the first question of the engine's list is returned
generateQuestions_Truncate(o) ==
    IF o.transport = "ok" /\ o.ok /\ o.success /\ o.hasList
    THEN [threw |-> FALSE, error |-> "", questions |-> SubSeq(o.list, 1, 1)]
    ELSE [threw |-> TRUE, questions |-> <<>>,
          error |-> IF o.error # "" THEN o.error
                    ELSE "Python service returned unsuccessful response"]

\* generateQuestions: the returned list, or the Error it throws
generateQuestions(o) ==
    IF o.transport = "throw" THEN [threw |-> TRUE, error |-> o.error, questions |-> <<>>]
    ELSE IF ~o.ok THEN
        [threw |-> TRUE, questions |-> <<>>,
         error |-> IF o.error # "" THEN o.error ELSE "Python service returned 500"]
    ELSE IF o.success /\ o.hasList THEN [threw |-> FALSE, error |-> "", questions |-> o.list]
    ELSE [threw |-> TRUE, questions |-> <<>>,
          error |-> IF o.error # "" THEN o.error
                    ELSE "Python service returned unsuccessful response"]

----------------------------------------------------------------------------
(* server.ts handlers                                                      *)

\* new SessionData of POST /api/questions
NewSession(query, questions) ==
    [currentQuestionIndex |-> 0, answers |-> EmptyObj,
     originalQuery |-> query, questions |-> questions]

\* generateSessionId(): session_<Date.now()>_<random>; any identifier may come out
generateSessionId == SessionIds

\* app.post("/api/questions"): query "" stands for a missing or non-string query
PostQuestions(c, query, sid, o) ==
    /\ http[c].pc = "idle"
    /\ IF query = "" THEN
           /\ Respond(c, "/api/questions", "",
                      [NoResp EXCEPT !.status = 400,
                                     !.error = "Invalid query. Expected a string."])
           /\ UNCHANGED userSessions
       ELSE LET g == generateQuestions(o) IN
           IF g.threw THEN
               /\ Respond(c, "/api/questions", "",
                          [NoResp EXCEPT !.status = 500, !.error = g.error])
               /\ UNCHANGED userSessions
           ELSE
               /\ userSessions' = MapSet(userSessions, sid, NewSession(query, g.questions))
               /\ Respond(c, "/api/questions", sid,
                          [NoResp EXCEPT !.status = 200, !.success = TRUE,
                                         !.sessionId = sid, !.questions = g.questions])
    /\ UNCHANGED <<clock, env, storeVars, histVars, auth>>

\* mutant: the forEach without the questionExists check
MergeAnswers_NoCheck(session, answers) ==
    [k \in (DOMAIN session.answers) \cup (DOMAIN answers) |->
        IF k \in DOMAIN answers THEN answers[k] ELSE session.answers[k]]

\* mutant: session.answers = answers restricted to the known ids (a full replace)
MergeAnswers_Replace(session, answers) ==
    [k \in {x \in DOMAIN answers : x \in QuestionIds(session.questions)} |-> answers[k]]

\* the forEach of POST /submit-answers: store the entries whose key is a question id
MergeAnswers(session, answers) ==
    LET known == {k \in DOMAIN answers : k \in QuestionIds(session.questions)} IN
    [k \in (DOMAIN session.answers) \cup known |->
        IF k \in known THEN answers[k] ELSE session.answers[k]]

\* the keys the forEach rejects with console.warn
UnknownKeys(session, answers) ==
    {k \in DOMAIN answers : k \notin QuestionIds(session.questions)}

\* mutant: the body carries no question objects
SearchBody_NoQuestions(session) ==
    [query |-> session.originalQuery, answers |-> session.answers,
     questions |-> <<>>, user_id |-> "null"]

\* body of the fetch to the search service
SearchBody(session) ==
    [query |-> session.originalQuery, answers |-> session.answers,
     questions |-> session.questions, user_id |-> "null"]

\* app.post("/submit-answers") up to the await of the search fetch.
\* hasAnswers = FALSE stands for a missing or non-object answers field,
\* sid = "" for a missing sessionId.
SubmitAnswers(c, sid, hasAnswers, answers) ==
    /\ http[c].pc = "idle"
    /\ IF ~hasAnswers THEN
           /\ Respond(c, "/submit-answers", "",
                      [NoResp EXCEPT !.status = 400, !.error = "Invalid answers format"])
           /\ UNCHANGED userSessions
       ELSE IF sid = "" \/ sid \notin DOMAIN userSessions THEN
           /\ Respond(c, "/submit-answers", "",
                      [NoResp EXCEPT !.status = 404, !.error = "Session not found"])
           /\ UNCHANGED userSessions
       ELSE LET merged == [userSessions[sid] EXCEPT
                              !.answers = MergeAnswers(userSessions[sid], answers)] IN
           /\ userSessions' = [userSessions EXCEPT ![sid] = merged]
           /\ http' = [http EXCEPT ![c] =
                  [pc |-> "searching", route |-> "/submit-answers",
                   sessionId |-> sid, searchBody |-> SearchBody(merged),
                   warned |-> UnknownKeys(userSessions[sid], answers), resp |-> NoResp]]
    /\ UNCHANGED <<clock, env, storeVars, histVars, auth>>

\* search results the search service may return
R1 == [title |-> "Brooks Ghost", description |-> "Plush daily trainer",
       url |-> "https://example.com/ghost", relevance |-> 9]

SearchOutcomes ==
    {Outcome("throw", FALSE, FALSE, "fetch failed", FALSE, <<>>),
     Outcome("ok", FALSE, FALSE, "tavily down", FALSE, <<>>),
     Outcome("ok", TRUE, FALSE, "", FALSE, <<>>),
     Outcome("ok", TRUE, TRUE, "", FALSE, <<>>),
     Outcome("ok", TRUE, TRUE, "", TRUE, <<R1>>)}

\* the response POST /submit-answers sends once the search fetch settles
SearchResponse(sid, o) ==
    IF o.transport = "throw" THEN
        [NoResp EXCEPT !.status = 500, !.error = "Failed to call search service",
                       !.message = "Search service unavailable"]
    ELSE IF ~o.ok \/ ~o.success THEN
        [NoResp EXCEPT !.status = 500,
                       !.error = IF o.error # "" THEN o.error ELSE "Search service failed",
                       !.message = "Failed to generate recommendations"]
    ELSE
        [NoResp EXCEPT !.status = 200, !.success = TRUE,
                       !.message = "Answers received and search completed!",
                       !.sessionId = sid,
                       !.searchResults = IF o.hasList THEN o.list ELSE <<>>]

\* mutant: a search that failed takes the session with it
SearchReturns_DropSession(c, o) ==
    /\ http[c].pc = "searching"
    /\ Respond(c, "/submit-answers", http[c].sessionId,
               SearchResponse(http[c].sessionId, o))
    /\ userSessions' =
          IF SearchResponse(http[c].sessionId, o).status = 200 THEN userSessions
          ELSE [x \in (DOMAIN userSessions) \ {http[c].sessionId} |-> userSessions[x]]
    /\ UNCHANGED <<clock, env, storeVars, histVars, auth>>

\* mutant: a search that failed is dispatched again instead of answered
SearchReturns_Retry(c, o) ==
    /\ http[c].pc = "searching"
    /\ IF SearchResponse(http[c].sessionId, o).status = 200
       THEN Respond(c, "/submit-answers", http[c].sessionId,
                    SearchResponse(http[c].sessionId, o))
       ELSE http' = [http EXCEPT ![c].resp = SearchResponse(http[c].sessionId, o)]
    /\ UNCHANGED <<userSessions, clock, env, storeVars, histVars, auth>>

\* app.post("/submit-answers") after the await: the fetch settled with outcome o
SearchReturns(c, o) ==
    /\ http[c].pc = "searching"
    /\ Respond(c, "/submit-answers", http[c].sessionId,
               SearchResponse(http[c].sessionId, o))
    /\ UNCHANGED <<userSessions, clock, env, storeVars, histVars, auth>>

\* the legacy route app.post("/api/answers"): entries are keyed by question text
MergeAnswersByText(session, answers) ==
    LET idOf(t) == (CHOOSE i \in 1..Len(session.questions) :
                        /\ session.questions[i].text = t
                        /\ \A j \in 1..(i - 1) : session.questions[j].text # t)
        found == {t \in DOMAIN answers :
                    \E i \in 1..Len(session.questions) :
                        session.questions[i].text = t /\ session.questions[i].id # ""}
        ids == {session.questions[idOf(t)].id : t \in found}
    IN [k \in (DOMAIN session.answers) \cup ids |->
          IF k \in ids
          THEN answers[CHOOSE t \in found : session.questions[idOf(t)].id = k]
          ELSE session.answers[k]]

TextKeys == {"Preferred fit?", "zz"}
BodyAnswersByText == Objects(TextKeys, {"A"})

PostAnswers(c, sid, hasAnswers, answers) ==
    /\ http[c].pc = "idle"
    /\ IF sid = "" \/ sid \notin DOMAIN userSessions THEN
           /\ Respond(c, "/api/answers", "",
                      [NoResp EXCEPT !.status = 404, !.error = "Session not found"])
           /\ UNCHANGED userSessions
       ELSE IF ~hasAnswers THEN
           /\ Respond(c, "/api/answers", "",
                      [NoResp EXCEPT !.status = 400, !.error = "Invalid answers format"])
           /\ UNCHANGED userSessions
       ELSE
           /\ userSessions' = [userSessions EXCEPT
                  ![sid].answers = MergeAnswersByText(userSessions[sid], answers)]
           /\ Respond(c, "/api/answers", sid,
                      [NoResp EXCEPT !.status = 200, !.success = TRUE, !.sessionId = sid])
    /\ UNCHANGED <<clock, env, storeVars, histVars, auth>>

\* app.get("/api/widget/:sessionId")
GetWidget(c, sid) ==
    /\ http[c].pc = "idle"
    /\ IF sid = "" \/ sid \notin DOMAIN userSessions
       THEN Respond(c, "/api/widget", "",
                    [NoResp EXCEPT !.status = 404, !.error = "Session not found"])
       ELSE Respond(c, "/api/widget", sid,
                    [NoResp EXCEPT !.status = 200, !.sessionId = sid,
                                   !.questions = userSessions[sid].questions])
    /\ UNCHANGED <<userSessions, clock, env, storeVars, histVars, auth>>

----------------------------------------------------------------------------
(* Question schema (src/types/question.types.ts) and the life of the       *)
(* server process                                                          *)

MIN_TEXT_LEN == 5
MIN_ANSWERS == 2
MAX_ANSWERS == 6
MIN_QUESTIONS == 1
MAX_QUESTIONS == 10

\* QuestionSchema.safeParse(q).success
QuestionSchema(q) ==
    /\ Len(q.text) >= MIN_TEXT_LEN
    /\ Len(q.answers) >= MIN_ANSWERS /\ Len(q.answers) <= MAX_ANSWERS

\* QuestionsResponseSchema.safeParse({ questions }).success
QuestionsResponseSchema(questions) ==
    /\ Len(questions) >= MIN_QUESTIONS /\ Len(questions) <= MAX_QUESTIONS
    /\ \A i \in 1..Len(questions) : QuestionSchema(questions[i])

\* lists a question engine can answer with that break the schema: none, one
\* too many, a question with a single answer, with seven, with a short text
MalformedLists ==
    {<<>>,
     [i \in 1..(MAX_QUESTIONS + 1) |-> Q1],
     <<Q1, Q("q2", "Budget range?", <<"A">>)>>,
     <<Q("q1", "Preferred fit?", [i \in 1..(MAX_ANSWERS + 1) |-> "A"])>>,
     <<Q("q1", "Fit?", <<"A", "B">>), Q2>>}

EngineOutcomesAny ==
    EngineOutcomes \cup {Outcome("ok", TRUE, TRUE, "", TRUE, l) : l \in MalformedLists}

\* the process exits and is started again: the module is loaded anew
\* (const userSessions = new Map()) and the requests in flight are lost
Restart ==
    /\ userSessions' = [x \in {} |-> NewSession("", <<>>)]
    /\ http' = [c \in Clients |-> IF http[c].pc = "idle" THEN http[c] ELSE IdleConn]
    /\ UNCHANGED <<clock, env, storeVars, histVars, auth>>

----------------------------------------------------------------------------
(* Supabase client singleton (getSupabaseClient, one copy per service)     *)

\* the client getSupabaseClient() returns: null when the environment lacks
\* the credentials ("missing") or createClient throws ("invalid")
ClientAvailable == env = "ok"

\* what an awaited store call can produce: data, an { error } result, or a throw
StoreOutcomes == {"ok", "error", "throw"}

----------------------------------------------------------------------------
(* History Retention: saveSearchHistory and the cleanup trigger            *)

HISTORY_CAP == 10

Users == {"u1", "u2"}

\* SearchHistoryEntry as passed to saveSearchHistory. hasResults = FALSE is an
\* absent search_results field, error_message "" an absent one.
Entry(u, hasResults, results, failed, msg) ==
    [user_id |-> u, query |-> "shoes", answers |-> EmptyObj,
     hasResults |-> hasResults, search_results |-> results,
     failed |-> failed, error_message |-> msg]

DefaultEntry == Entry("u1", TRUE, <<R1>>, FALSE, "")

HistEntries ==
    {DefaultEntry,
     Entry("u2", TRUE, <<R1>>, FALSE, ""),
     Entry("u1", FALSE, <<>>, TRUE, "tavily down"),
     Entry("u1", FALSE, <<>>, TRUE, ""),
     Entry("u1", TRUE, <<R1>>, TRUE, "tavily down"),
     Entry("u1", TRUE, <<>>, TRUE, "tavily down"),
     Entry("u1", FALSE, <<>>, FALSE, "")}

\* the row saveSearchHistory writes for a failed search without results
FailurePlaceholder(msg) ==
    <<[title |-> "Search Failed",
       description |-> IF msg # "" THEN msg ELSE "Search service returned an error",
       url |-> "", relevance |-> 0]>>

\* mutant: a failed entry always gets the placeholder
HistoryData_FailedFirst(entry) ==
    [user_id |-> entry.user_id, query |-> entry.query, answers |-> entry.answers,
     hasResults |-> entry.hasResults \/ entry.failed,
     search_results |-> IF entry.failed THEN FailurePlaceholder(entry.error_message)
                        ELSE IF entry.hasResults THEN entry.search_results
                        ELSE <<>>]

\* historyData of saveSearchHistory (hasResults = FALSE: no search_results column value)
HistoryData(entry) ==
    [user_id |-> entry.user_id, query |-> entry.query, answers |-> entry.answers,
     hasResults |-> entry.hasResults \/ entry.failed,
     search_results |-> IF entry.hasResults THEN entry.search_results
                        ELSE IF entry.failed THEN FailurePlaceholder(entry.error_message)
                        ELSE <<>>]

\* the inserted row: id in insertion order, created_at DEFAULT NOW()
HistoryRow(id, data, now) ==
    [id |-> id, created_at |-> now, user_id |-> data.user_id, query |-> data.query,
     answers |-> data.answers, hasResults |-> data.hasResults,
     search_results |-> data.search_results]

NoRow == HistoryRow(0, HistoryData(Entry("", FALSE, <<>>, FALSE, "")), 0)

RowsOf(rows, u) == {r \in rows : r.user_id = u}

\* SELECT id ... WHERE user_id = u ORDER BY created_at DESC LIMIT cap: every
\* set of rows the query may return (rows of equal created_at come in any order)
TopByCreatedAt(rows, cap) ==
    IF Cardinality(rows) <= cap THEN {rows}
    ELSE LET t == CHOOSE x \in {r.created_at : r \in rows} :
                    /\ Cardinality({r \in rows : r.created_at > x}) < cap
                    /\ Cardinality({r \in rows : r.created_at >= x}) >= cap
             above == {r \in rows : r.created_at > t}
             tied == {r \in rows : r.created_at = t}
         IN {above \cup T : T \in {S \in SUBSET tied :
                                      Cardinality(S) = cap - Cardinality(above)}}

\* mutant: the DELETE has no user_id condition
CleanupDeletes_AllUsers(visible, u, keep) == visible \ keep

\* cleanup_old_search_history(): the rows the trigger's DELETE removes, given the
\* rows its statement can see and the set its sub-select returned
CleanupDeletes(visible, u, keep) == RowsOf(visible, u) \ keep

\* list: what the last getSearchHistory of the caller returned
IdleHist == [pc |-> "idle", ret |-> "none", row |-> NoRow, deletes |-> {}, list |-> <<>>]

\* mutant: the catch block rethrows instead of returning false
SaveFailure_Rethrow(cause) == IF cause = "throw" THEN "threw" ELSE "false"

\* what saveSearchHistory hands its caller when the write fails: client
\* unavailable, { error } from the insert, or an exception caught by its try
SaveFailure(cause) == "false"

\* no other saveSearchHistory transaction is open
NoOtherOpen(p) == \A q \in DOMAIN hist : q # p => hist[q].pc = "idle"

\* saveSearchHistory(entry) up to the end of the INSERT statement. The INSERT and
\* its AFTER INSERT trigger run in one transaction; the trigger's DELETE sees the
\* committed rows and the transaction's own row (READ COMMITTED).
\* Calls that do not overlap are separated in time; overlapping ones may share NOW().
SaveInsert(p, entry, outcome, maxAppends) ==
    /\ hist[p].pc = "idle"
    /\ nextRowId <= maxAppends
    /\ IF ~ClientAvailable \/ outcome # "ok" THEN
           /\ hist' = [hist EXCEPT ![p] = [IdleHist EXCEPT !.ret =
                  SaveFailure(IF ~ClientAvailable THEN "noclient" ELSE outcome)]]
           /\ UNCHANGED <<nextRowId, clock>>
       ELSE
           /\ \E now \in (IF NoOtherOpen(p) THEN {clock + 1} ELSE {clock, clock + 1}) :
                LET row == HistoryRow(nextRowId, HistoryData(entry), now)
                    visible == history \cup {row}
                IN /\ clock' = now
                   /\ \E keep \in TopByCreatedAt(RowsOf(visible, row.user_id), HISTORY_CAP) :
                        hist' = [hist EXCEPT ![p] =
                            [pc |-> "inserted", ret |-> "none", row |-> row, list |-> <<>>,
                             deletes |-> CleanupDeletes(visible, row.user_id, keep)]]
           /\ nextRowId' = nextRowId + 1
    /\ UNCHANGED <<history, serverVars, env, storeVars, auth>>

\* the transaction commits and saveSearchHistory returns true
SaveCommit(p) ==
    /\ hist[p].pc = "inserted"
    /\ history' = (history \cup {hist[p].row}) \ hist[p].deletes
    /\ hist' = [hist EXCEPT ![p] = [IdleHist EXCEPT !.ret = "true"]]
    /\ UNCHANGED <<nextRowId, clock, serverVars, env, storeVars, auth>>

READ_LIMIT == 10

\* ORDER BY created_at DESC: every order the rows may come in (rows of equal
\* created_at in any order)
RECURSIVE NewestFirst(_)
NewestFirst(rows) ==
    IF rows = {} THEN {<<>>}
    ELSE UNION {{<<r>> \o t : t \in NewestFirst(rows \ {r})} :
                    r \in {x \in rows : \A y \in rows : x.created_at >= y.created_at}}

\* mutant: the select has no limit
SelectHistory_NoLimit(rows, u) == NewestFirst(RowsOf(rows, u))

\* mutant: the select has no user filter
SelectHistory_AllUsers(rows, u) ==
    UNION {NewestFirst(keep) : keep \in TopByCreatedAt(rows, READ_LIMIT)}

\* select("*").eq("user_id", u).order("created_at", {ascending: false}).limit(10):
\* every list the query may return
SelectHistory(rows, u) ==
    UNION {NewestFirst(keep) : keep \in TopByCreatedAt(RowsOf(rows, u), READ_LIMIT)}

\* getSearchHistory(userId): the committed rows of the user, or null
getSearchHistory(p, u, outcome) ==
    /\ hist[p].pc = "idle"
    /\ IF ~ClientAvailable \/ outcome # "ok"
       THEN hist' = [hist EXCEPT ![p] = [IdleHist EXCEPT !.ret = "null"]]
       ELSE \E list \in SelectHistory(history, u) :
               hist' = [hist EXCEPT ![p] = [IdleHist EXCEPT !.ret = "list", !.list = list]]
    /\ UNCHANGED <<history, nextRowId, clock, serverVars, env, storeVars, auth>>


----------------------------------------------------------------------------
(* Session Store (src/src/services/sessionService.ts)                      *)

TTL_HOURS == 24

\* by how many hours the local UTC offset of the process can differ between
\* an instant and the same wall-clock time a day later: 0 in a zone without
\* daylight saving, 1 across the start and -1 across the end of summer time
OffsetShifts == {0 - 1, 0, 1}

\* mutant: the TTL is added to the instant, whatever the local time does
AddLocalHours_Absolute(now, hours, shift) == now + hours

\* d.setHours(d.getHours() + hours): the hours are added to the local
\* wall-clock time of d, and the result is read back as an instant
AddLocalHours(now, hours, shift) == now + hours - shift

\* a row of public.user_sessions as createSession inserts it at instant now
\* (created_at and updated_at DEFAULT NOW())
SessionRow(userId, sid, query, questions, now, shift) ==
    [user_id |-> userId, session_id |-> sid, original_query |-> query,
     questions |-> questions, answers |-> EmptyObj, current_question_index |-> 0,
     created_at |-> now, updated_at |-> now,
     expires_at |-> AddLocalHours(now, TTL_HOURS, shift)]

\* mutant: the questions come back in the reverse order
ToSessionData_Reversed(row) ==
    [currentQuestionIndex |-> row.current_question_index, answers |-> row.answers,
     originalQuery |-> row.original_query,
     questions |-> [i \in 1..Len(row.questions) |->
                        row.questions[Len(row.questions) + 1 - i]]]

\* "Convert database format to SessionData"
ToSessionData(row) ==
    [currentQuestionIndex |-> row.current_question_index, answers |-> row.answers,
     originalQuery |-> row.original_query, questions |-> row.questions]

NoData == NewSession("", <<>>)

\* mutant: the expiry check compares against the creation time
IsExpired_Never(row, now) == now > row.expires_at + TTL_HOURS

\* mutant: a session counts as expired from the instant of its expiry on
IsExpired_AtExpiry(row, now) == now >= row.expires_at

\* getSession: now > expiresAt
IsExpired(row, now) == now > row.expires_at

\* a sessionService call of caller p: op and arguments, where it stands, what
\* it returned (ret: "none" | "true" | "false" | "null" | "session"), whether
\* its select saw an expired row, and the console.error it logged
Call(pc, op, sid, answers, ret, data, expired, logged) ==
    [pc |-> pc, op |-> op, sid |-> sid, answers |-> answers, ret |-> ret,
     data |-> data, expired |-> expired, logged |-> logged]

IdleCall == Call("idle", "", "", EmptyObj, "none", NoData, FALSE, "")

Return(p, op, sid, ret, data, expired, logged) ==
    store' = [store EXCEPT ![p] = Call("idle", op, sid, EmptyObj, ret, data, expired, logged)]

\* createSession(userId, sessionId, originalQuery, questions). The insert fails
\* on a store error, on a session_id already present (UNIQUE) and on a user_id
\* that is no auth.users id (UUID REFERENCES auth.users).
createSession(p, userId, sid, query, questions, outcome, shift) ==
    /\ store[p].pc = "idle"
    /\ IF ~ClientAvailable THEN
           /\ Return(p, "createSession", sid, "false", NoData, FALSE,
                     "Supabase client not available")
           /\ UNCHANGED user_sessions
       ELSE IF outcome # "ok" \/ sid \in DOMAIN user_sessions \/ userId \notin Users THEN
           /\ Return(p, "createSession", sid, "false", NoData, FALSE, "Error creating session")
           /\ UNCHANGED user_sessions
       ELSE
           /\ user_sessions' = MapSet(user_sessions, sid,
                                      SessionRow(userId, sid, query, questions, clock, shift))
           /\ Return(p, "createSession", sid, "true", NoData, FALSE, "")
    /\ UNCHANGED <<clock, env, serverVars, histVars, auth>>

\* getSession(sessionId) up to the end of its select; op is "getSession", or
\* "updateSessionAnswers" when the call is the existence check of an update
SelectSession(p, op, sid, answers, outcome) ==
    /\ store[p].pc = "idle"
    /\ IF ~ClientAvailable THEN
           Return(p, op, sid, IF op = "getSession" THEN "null" ELSE "false", NoData, FALSE,
                  "Supabase client not available")
       ELSE IF outcome # "ok" THEN
           Return(p, op, sid, IF op = "getSession" THEN "null" ELSE "false", NoData, FALSE,
                  "Error getting session")
       ELSE IF sid \notin DOMAIN user_sessions THEN
           Return(p, op, sid, IF op = "getSession" THEN "null" ELSE "false", NoData, FALSE, "")
       ELSE IF IsExpired(user_sessions[sid], clock) THEN
           store' = [store EXCEPT ![p] =
                        Call("purging", op, sid, answers, "none", NoData, TRUE, "")]
       ELSE IF op = "getSession" THEN
           Return(p, op, sid, "session", ToSessionData(user_sessions[sid]), FALSE, "")
       ELSE
           store' = [store EXCEPT ![p] =
                        Call("writing", op, sid, answers, "none", NoData, FALSE, "")]
    /\ UNCHANGED <<user_sessions, clock, env, serverVars, histVars, auth>>

\* rows after DELETE FROM user_sessions WHERE session_id = sid
DeleteRow(rows, sid) == [x \in (DOMAIN rows) \ {sid} |-> rows[x]]

\* mutant: the expired row is given a new expiry and the update goes on
PurgeExpired_Renew(p, outcome) ==
    /\ store[p].pc = "purging"
    /\ user_sessions' =
          IF store[p].sid \in DOMAIN user_sessions
          THEN [user_sessions EXCEPT ![store[p].sid].expires_at = clock + TTL_HOURS]
          ELSE user_sessions
    /\ Return(p, store[p].op, store[p].sid,
              IF store[p].op = "getSession" THEN "null" ELSE "true", NoData, TRUE, "")
    /\ UNCHANGED <<clock, env, serverVars, histVars, auth>>

\* mutant: when the delete fails the expired session is handed out
PurgeExpired_ReturnOnFail(p, outcome) ==
    /\ store[p].pc = "purging"
    /\ IF outcome = "ok"
       THEN /\ user_sessions' = DeleteRow(user_sessions, store[p].sid)
            /\ Return(p, store[p].op, store[p].sid,
                      IF store[p].op = "getSession" THEN "null" ELSE "false",
                      NoData, TRUE, "")
       ELSE /\ UNCHANGED user_sessions
            /\ Return(p, store[p].op, store[p].sid,
                      IF store[p].op = "getSession" THEN "session" ELSE "false",
                      IF store[p].sid \in DOMAIN user_sessions
                      THEN ToSessionData(user_sessions[store[p].sid]) ELSE NoData,
                      TRUE, "Error deleting session")
    /\ UNCHANGED <<clock, env, serverVars, histVars, auth>>

\* getSession: "Session expired - delete it": await deleteSession(sessionId),
\* whose result is ignored, then return null
PurgeExpired(p, outcome) ==
    /\ store[p].pc = "purging"
    /\ IF outcome = "ok"
       THEN /\ user_sessions' = DeleteRow(user_sessions, store[p].sid)
            /\ Return(p, store[p].op, store[p].sid,
                      IF store[p].op = "getSession" THEN "null" ELSE "false",
                      NoData, TRUE, "")
       ELSE /\ UNCHANGED user_sessions
            /\ Return(p, store[p].op, store[p].sid,
                      IF store[p].op = "getSession" THEN "null" ELSE "false",
                      NoData, TRUE, "Error deleting session")
    /\ UNCHANGED <<clock, env, serverVars, histVars, auth>>

\* mutant: the update also pushes the expiry out (a sliding expiry)
WriteAnswers_Slide(p, outcome) ==
    /\ store[p].pc = "writing"
    /\ IF outcome = "ok"
       THEN /\ user_sessions' =
                 IF store[p].sid \in DOMAIN user_sessions
                 THEN [user_sessions EXCEPT ![store[p].sid].answers = store[p].answers,
                                            ![store[p].sid].updated_at = clock,
                                            ![store[p].sid].expires_at = clock + TTL_HOURS]
                 ELSE user_sessions
            /\ Return(p, store[p].op, store[p].sid, "true", NoData, FALSE, "")
       ELSE /\ UNCHANGED user_sessions
            /\ Return(p, store[p].op, store[p].sid, "false", NoData, FALSE,
                      "Error updating session")
    /\ UNCHANGED <<clock, env, serverVars, histVars, auth>>

\* updateSessionAnswers: the UPDATE ... WHERE session_id = sid after the check.
\* An UPDATE that matches no row is no error.
WriteAnswers(p, outcome) ==
    /\ store[p].pc = "writing"
    /\ IF outcome = "ok"
       THEN /\ user_sessions' =
                 IF store[p].sid \in DOMAIN user_sessions
                 THEN [user_sessions EXCEPT ![store[p].sid].answers = store[p].answers,
                                            ![store[p].sid].updated_at = clock]
                 ELSE user_sessions
            /\ Return(p, store[p].op, store[p].sid, "true", NoData, FALSE, "")
       ELSE /\ UNCHANGED user_sessions
            /\ Return(p, store[p].op, store[p].sid, "false", NoData, FALSE,
                      "Error updating session")
    /\ UNCHANGED <<clock, env, serverVars, histVars, auth>>

\* mutant: deleting an identifier that has no row is reported as a failure
deleteSession_Strict(p, sid, outcome) ==
    /\ store[p].pc = "idle"
    /\ IF ~ClientAvailable THEN
           /\ Return(p, "deleteSession", sid, "false", NoData, FALSE,
                     "Supabase client not available")
           /\ UNCHANGED user_sessions
       ELSE IF outcome # "ok" \/ sid \notin DOMAIN user_sessions THEN
           /\ Return(p, "deleteSession", sid, "false", NoData, FALSE, "Error deleting session")
           /\ UNCHANGED user_sessions
       ELSE
           /\ user_sessions' = DeleteRow(user_sessions, sid)
           /\ Return(p, "deleteSession", sid, "true", NoData, FALSE, "")
    /\ UNCHANGED <<clock, env, serverVars, histVars, auth>>

\* deleteSession(sessionId)
deleteSession(p, sid, outcome) ==
    /\ store[p].pc = "idle"
    /\ IF ~ClientAvailable THEN
           /\ Return(p, "deleteSession", sid, "false", NoData, FALSE,
                     "Supabase client not available")
           /\ UNCHANGED user_sessions
       ELSE IF outcome # "ok" THEN
           /\ Return(p, "deleteSession", sid, "false", NoData, FALSE, "Error deleting session")
           /\ UNCHANGED user_sessions
       ELSE
           /\ user_sessions' = DeleteRow(user_sessions, sid)
           /\ Return(p, "deleteSession", sid, "true", NoData, FALSE, "")
    /\ UNCHANGED <<clock, env, serverVars, histVars, auth>>

\* time passes: by an hour, or by a whole TTL
Tick(d, maxClock) ==
    /\ clock + d <= maxClock
    /\ clock' = clock + d
    /\ UNCHANGED <<env, serverVars, storeVars, histVars, auth>>


----------------------------------------------------------------------------
(* Auth middleware (src/middleware/auth.ts)                                *)

AuthRequests == {"r1", "r2"}

\* req.headers.authorization ("" = header absent)
AuthHeaders == {"", "Bearer ", "Bearer tok_u1", "bearer tok_u1", "tok_u1",
                "Bearer tok_bad", "Bearer tok_old"}

\* authHeader?.replace(/^Bearer\s+/i, ""): the prefix is removed whatever its
\* case; a header without the prefix is kept whole
StripBearer(header) ==
    IF header \in {"", "Bearer "} THEN ""
    ELSE IF header \in {"Bearer tok_u1", "bearer tok_u1", "tok_u1"} THEN "tok_u1"
    ELSE IF header = "Bearer tok_bad" THEN "tok_bad"
    ELSE "tok_old"

\* how the call to the identity provider can end: it answers, it cannot be
\* reached and the library reports that as an { error }, or the call throws
Transports == {"reply", "neterror", "throw"}

\* client.auth.getUser(token): the user id, or why there is none. tok_bad is
\* no token of the provider, tok_old is one that has expired.
getUser(token, transport) ==
    IF transport = "throw" THEN "threw"
    ELSE IF transport = "neterror" THEN "unreachable"
    ELSE IF token = "tok_u1" THEN "u1"
    ELSE "rejected"

\* validateToken: "" stands for null
validateToken(token, transport) ==
    IF ~ClientAvailable THEN ""
    ELSE IF getUser(token, transport) \in {"threw", "unreachable", "rejected"} THEN ""
    ELSE getUser(token, transport)

getSupabaseClient == IF ClientAvailable THEN "client" ELSE "null"

NoUser == [set |-> FALSE, id |-> "", isDegraded |-> FALSE]

\* mutant: the attached identity never carries the degraded flag
ReqUser_Unflagged(id, degraded) == [set |-> TRUE, id |-> id, isDegraded |-> FALSE]

\* req.user as requireAuth sets it
ReqUser(id, degraded) == [set |-> TRUE, id |-> id, isDegraded |-> degraded]

\* lookup: what getUser produced for this request ("none" = it was not called);
\* sent: the responses the middleware sent; nexts: its calls of next()
AuthReq(pc, header, token, lookup, status, error, user, next) ==
    [pc |-> pc, header |-> header, token |-> token, lookup |-> lookup,
     status |-> status, error |-> error, user |-> user, next |-> next,
     sent |-> IF status # 0 THEN 1 ELSE 0, nexts |-> IF next THEN 1 ELSE 0]
IdleAuth == AuthReq("idle", "", "", "none", 0, "", NoUser, FALSE)

DegradedMode_Always(client) == TRUE

\* if (!client) after validateToken returned null
DegradedMode(client) == client = "null"

\* requireAuth up to the await of validateToken
RequireAuthBegin(r, header) ==
    /\ auth[r].pc = "idle"
    /\ LET token == StripBearer(header) IN
       IF token = "" THEN
           auth' = [auth EXCEPT ![r] =
               AuthReq("done", header, token, "none", 401,
                       "Authentication required. Please provide a valid token.",
                       NoUser, FALSE)]
       ELSE
           auth' = [auth EXCEPT ![r] =
               AuthReq("validating", header, token, "none", 0, "", NoUser, FALSE)]
    /\ UNCHANGED <<clock, env, serverVars, storeVars, histVars>>

\* mutant: a token that does not validate is answered 401 and the request
\* goes on all the same
RequireAuthFinish_Both(r, transport) ==
    /\ auth[r].pc = "validating"
    /\ LET a == auth[r]
           user == validateToken(a.token, transport)
           lookup == IF ClientAvailable THEN getUser(a.token, transport) ELSE "none"
       IN
       IF user = "" THEN
           auth' = [auth EXCEPT ![r] =
               AuthReq("done", a.header, a.token, lookup, 401,
                       "Invalid or expired token. Please sign in again.",
                       ReqUser("", TRUE), TRUE)]
       ELSE
           auth' = [auth EXCEPT ![r] =
               AuthReq("done", a.header, a.token, lookup, 0, "",
                       ReqUser(user, FALSE), TRUE)]
    /\ UNCHANGED <<clock, env, serverVars, storeVars, histVars>>

\* validateToken returns and requireAuth runs to its end
RequireAuthFinish(r, transport) ==
    /\ auth[r].pc = "validating"
    /\ LET a == auth[r]
           user == validateToken(a.token, transport)
           lookup == IF ClientAvailable THEN getUser(a.token, transport) ELSE "none"
       IN
       IF user = "" THEN
           IF DegradedMode(getSupabaseClient) THEN
               auth' = [auth EXCEPT ![r] =
                   AuthReq("done", a.header, a.token, lookup, 0, "",
                           ReqUser("", TRUE), TRUE)]
           ELSE
               auth' = [auth EXCEPT ![r] =
                   AuthReq("done", a.header, a.token, lookup, 401,
                           "Invalid or expired token. Please sign in again.",
                           NoUser, FALSE)]
       ELSE
           auth' = [auth EXCEPT ![r] =
               AuthReq("done", a.header, a.token, lookup, 0, "",
                       ReqUser(user, FALSE), TRUE)]
    /\ UNCHANGED <<clock, env, serverVars, storeVars, histVars>>

\* optionalAuth up to the await of validateToken; without a token it
\* returns next() at once
OptionalAuthBegin(r, header) ==
    /\ auth[r].pc = "idle"
    /\ LET token == StripBearer(header) IN
       IF token = "" THEN
           auth' = [auth EXCEPT ![r] =
               AuthReq("optDone", header, token, "none", 0, "", NoUser, TRUE)]
       ELSE
           auth' = [auth EXCEPT ![r] =
               AuthReq("optValidating", header, token, "none", 0, "", NoUser, FALSE)]
    /\ UNCHANGED <<clock, env, serverVars, storeVars, histVars>>

\* mutant: a token that does not validate is answered 401
OptionalAuthFinish_Reject(r, transport) ==
    /\ auth[r].pc = "optValidating"
    /\ LET a == auth[r]
           user == validateToken(a.token, transport)
           lookup == IF ClientAvailable THEN getUser(a.token, transport) ELSE "none"
       IN
       IF user = "" THEN
           auth' = [auth EXCEPT ![r] =
               AuthReq("optDone", a.header, a.token, lookup, 401,
                       "Invalid or expired token. Please sign in again.",
                       NoUser, FALSE)]
       ELSE
           auth' = [auth EXCEPT ![r] =
               AuthReq("optDone", a.header, a.token, lookup, 0, "",
                       ReqUser(user, FALSE), TRUE)]
    /\ UNCHANGED <<clock, env, serverVars, storeVars, histVars>>

\* validateToken returns and optionalAuth runs to its end: req.user = user
\* if there is one, then next()
OptionalAuthFinish(r, transport) ==
    /\ auth[r].pc = "optValidating"
    /\ LET a == auth[r]
           user == validateToken(a.token, transport)
           lookup == IF ClientAvailable THEN getUser(a.token, transport) ELSE "none"
       IN
       auth' = [auth EXCEPT ![r] =
           AuthReq("optDone", a.header, a.token, lookup, 0, "",
                   IF user = "" THEN NoUser ELSE ReqUser(user, FALSE), TRUE)]
    /\ UNCHANGED <<clock, env, serverVars, storeVars, histVars>>

\* getUserId(req): req.user?.id || null
getUserId(user) == IF user.set /\ user.id # "" THEN user.id ELSE "null"

----------------------------------------------------------------------------
(* Initial state and specifications                                        *)

EnvStates == {"ok", "missing", "invalid"}
StoreCallers == {"p1", "p2"}
HistCallers == {"h1", "h2"}

Init ==
    /\ userSessions = [x \in {} |-> NewSession("", <<>>)]
    /\ http = [c \in Clients |-> IdleConn]
    /\ clock = 0
    /\ env \in EnvStates
    /\ user_sessions = [x \in {} |-> SessionRow("", "", "", <<>>, 0, 0)]
    /\ store = [p \in StoreCallers |-> IdleCall]
    /\ history = {}
    /\ hist = [p \in HistCallers |-> IdleHist]
    /\ nextRowId = 1
    /\ auth = [r \in AuthRequests |-> IdleAuth]

NextServer ==
    \/ \E c \in Clients : PostQuestions(c, "", "s1", CHOOSE o \in EngineOutcomes : TRUE)
    \/ \E c \in Clients, query \in Queries, sid \in generateSessionId,
          o \in EngineOutcomes :
            PostQuestions(c, query, sid, o)
    \/ \E c \in Clients, sid \in SessionIds \cup {""} :
            SubmitAnswers(c, sid, FALSE, NoAnswers)
    \/ \E c \in Clients, sid \in SessionIds \cup {""}, answers \in BodyAnswers :
            SubmitAnswers(c, sid, TRUE, answers)
    \/ \E c \in Clients, o \in SearchOutcomes : SearchReturns(c, o)
    \/ \E c \in Clients, sid \in SessionIds \cup {""} :
            PostAnswers(c, sid, FALSE, NoAnswers)
    \/ \E c \in Clients, sid \in SessionIds \cup {""}, answers \in BodyAnswersByText :
            PostAnswers(c, sid, TRUE, answers)
    \/ \E c \in Clients, sid \in SessionIds \cup {""} : GetWidget(c, sid)

\* server.ts reads nothing of the Supabase environment
InitServer == Init /\ env = "ok"

SpecServer == InitServer /\ [][NextServer]_vars

MaxAppends == 12
MaxVaried == 2
OverlapFrom == 9

\* h1 carries the user's sequential traffic; h2 is a second request that
\* arrives while h1's write is open. Overlap is explored once OverlapFrom
\* rows have been written; the first MaxVaried appends may be any entry.
NextHistory ==
    \/ \E outcome \in StoreOutcomes : SaveInsert("h1", DefaultEntry, outcome, MaxAppends)
    \/ \E entry \in HistEntries :
            nextRowId <= MaxVaried /\ SaveInsert("h1", entry, "ok", MaxAppends)
    \/ \E outcome \in StoreOutcomes :
            /\ hist["h1"].pc = "inserted" /\ nextRowId > OverlapFrom
            /\ SaveInsert("h2", DefaultEntry, outcome, MaxAppends)
    \/ \E p \in HistCallers : SaveCommit(p)

SpecHistory == Init /\ [][NextHistory]_vars


MaxClock == 25
MaxFine == 1

StoreSids == {"s1", "s2"}
StoreAnswers == {MapSet(EmptyObj, "q1", "A"), MapSet(MapSet(EmptyObj, "q1", "B"), "zz", "A")}

\* p1 issues every sessionService call; p2 is a second request that deletes s1
\* while p1 is under way. The clock moves in whole TTLs, and hour by hour
\* for MaxFine hours after each; the process runs in a zone without daylight
\* saving (SpecCreate has the others).
NextStore ==
    \/ \E userId \in {"u1", ""}, sid \in StoreSids, outcome \in StoreOutcomes :
            createSession("p1", userId, sid, "shoes", <<Q1, Q2>>, outcome, 0)
    \/ \E sid \in StoreSids, outcome \in StoreOutcomes :
            SelectSession("p1", "getSession", sid, EmptyObj, outcome)
    \/ \E sid \in StoreSids, answers \in StoreAnswers, outcome \in StoreOutcomes :
            SelectSession("p1", "updateSessionAnswers", sid, answers, outcome)
    \/ \E outcome \in StoreOutcomes : PurgeExpired("p1", outcome)
    \/ \E outcome \in StoreOutcomes : WriteAnswers("p1", outcome)
    \/ \E sid \in StoreSids, outcome \in StoreOutcomes :
            deleteSession("p1", sid, outcome)
    \/ \E outcome \in StoreOutcomes : deleteSession("p2", "s1", outcome)
    \/ (clock % TTL_HOURS) < MaxFine /\ Tick(1, MaxClock)
    \/ Tick(TTL_HOURS, MaxClock)

SpecStore == Init /\ [][NextStore]_vars

\* what createSession is called with for each session identifier
QuestionsOf(sid) == IF sid = "s1" THEN <<Q1, Q2>> ELSE <<Q2, Q1, Q2>>
QueryOf(sid) == IF sid = "s1" THEN "shoes" ELSE "boots"

\* sessions are created in any time zone and read back
NextCreate ==
    \/ \E userId \in {"u1", ""}, sid \in StoreSids, outcome \in StoreOutcomes,
          shift \in OffsetShifts :
            createSession("p1", userId, sid, QueryOf(sid), QuestionsOf(sid), outcome, shift)
    \/ \E sid \in StoreSids, outcome \in StoreOutcomes :
            SelectSession("p1", "getSession", sid, EmptyObj, outcome)
    \/ \E outcome \in StoreOutcomes : PurgeExpired("p1", outcome)
    \/ (clock % TTL_HOURS) < MaxFine /\ Tick(1, MaxClock)
    \/ Tick(TTL_HOURS, MaxClock)

SpecCreate == Init /\ [][NextCreate]_vars

\* two clients create sessions, submit answers and have their searches
\* answered, in any interleaving
NextDispatch ==
    \/ \E c \in Clients, sid \in generateSessionId, o \in EngineOutcomes :
            PostQuestions(c, "shoes", sid, o)
    \/ \E c \in Clients, sid \in SessionIds, answers \in BodyAnswers :
            SubmitAnswers(c, sid, TRUE, answers)
    \/ \E c \in Clients, o \in SearchOutcomes : SearchReturns(c, o)

SpecDispatch == InitServer /\ [][NextDispatch]_vars

NextAuth ==
    \/ \E r \in AuthRequests, header \in AuthHeaders : RequireAuthBegin(r, header)
    \/ \E r \in AuthRequests, transport \in Transports : RequireAuthFinish(r, transport)

SpecAuth == Init /\ [][NextAuth]_vars

LifeMaxClock == 48

\* sessions are created at hour 0; two TTLs later they are read and
\* submitted to, by the same process or by one started since
NextLifecycle ==
    \/ \E c \in Clients, sid \in generateSessionId, o \in EngineOutcomesAny :
            clock = 0 /\ PostQuestions(c, "shoes", sid, o)
    \/ \E sid \in SessionIds :
            SubmitAnswers("c2", sid, TRUE, MapSet(EmptyObj, "q1", "A"))
    \/ \E o \in SearchOutcomes : SearchReturns("c2", o)
    \/ \E sid \in SessionIds : GetWidget("c1", sid)
    \/ Tick(2 * TTL_HOURS, LifeMaxClock)
    \/ Restart

\* with the store configured or not: server.ts runs all the same
InitLifecycle == Init /\ env \in {"ok", "missing"}

SpecLifecycle == InitLifecycle /\ [][NextLifecycle]_vars


----------------------------------------------------------------------------
(* Properties of the server handlers                                       *)

\* C1: in every reachable state, for every session, each key of the stored
\* answer map is the id of a question of that session, also after
\* submissions that carry unknown keys (they are dropped, never stored).
C1_AnswerKeysAreQuestionIds ==
    \A s \in DOMAIN userSessions :
        DOMAIN userSessions[s].answers \subseteq QuestionIds(userSessions[s].questions)

\* a submission with the unknown key "zz" was merged: its known key is stored
C1_Witness ==
    \E c \in Clients :
        /\ http[c].pc = "searching"
        /\ http[c].warned = {"zz"}
        /\ http[c].sessionId \in DOMAIN userSessions
        /\ "q1" \in DOMAIN userSessions[http[c].sessionId].answers

\* C3: a submit-answers call with body a on an existing session stores a[k]
\* for every recognized key k of a and keeps every key stored before, with
\* its old value when a does not carry it. Applied to two successive calls:
\* the map holds the keys of both, the later value winning on a shared key.
C3_IncrementalMerge ==
    [][\A c \in Clients, sid \in SessionIds, a \in BodyAnswers :
          /\ http[c].pc = "idle" /\ http'[c].pc = "searching"
          /\ http'[c].sessionId = sid /\ sid \in DOMAIN userSessions
          /\ SubmitAnswers(c, sid, TRUE, a)
          =>
            LET old == userSessions[sid].answers
                new == userSessions'[sid].answers
                K == DOMAIN a \cap QuestionIds(userSessions[sid].questions)
            IN /\ K \subseteq DOMAIN new
               /\ \A k \in K : new[k] = a[k]
               /\ DOMAIN old \subseteq DOMAIN new
               /\ \A k \in (DOMAIN old) \ K : new[k] = old[k]]_vars

\* two calls on s1 are in flight: the first left {q1: A}, the later one added
\* q2 and the stored map holds both keys
C3_Witness ==
    /\ http["c1"].pc = "searching" /\ http["c1"].sessionId = "s1"
    /\ http["c1"].searchBody.answers = MapSet(EmptyObj, "q1", "A")
    /\ http["c2"].pc = "searching" /\ http["c2"].sessionId = "s1"
    /\ http["c2"].searchBody.answers = MapSet(MapSet(EmptyObj, "q1", "A"), "q2", "B")
    /\ "s1" \in DOMAIN userSessions
    /\ userSessions["s1"].answers = MapSet(MapSet(EmptyObj, "q1", "A"), "q2", "B")

\* user on whose behalf client c sends its requests
ClientUser(c) == TokenUser(ClientHeader(c))

\* client c's last request was a search dispatch that has returned
SearchDone(c) ==
    /\ http[c].pc = "idle" /\ http[c].route = "/submit-answers"
    /\ http[c].resp.message \in {"Search service unavailable",
                                 "Failed to generate recommendations",
                                 "Answers received and search completed!"}

\* C4: after N sequential search attempts of a user the history holds
\* min(N, cap) entries of that user (stated for the attempts the state still
\* shows: the completed dispatch of each of the user's clients).
C4_HistoryHoldsMinAttemptsCap ==
    \A u \in Users :
        LET n == Cardinality({c \in Clients : ClientUser(c) = u /\ SearchDone(c)})
        IN Cardinality(RowsOf(history, u)) >= Min(n, HISTORY_CAP)

\* C6: every failed search dispatch leaves an entry of the requesting user
\* whose result list is the failure placeholder carrying the error message;
\* the response reports the search failure only.
C6_FailedSearchRecorded ==
    \A c \in Clients :
        (ClientUser(c) # "" /\ SearchDone(c) /\ http[c].resp.status = 500) =>
            /\ \E r \in RowsOf(history, ClientUser(c)) :
                    r.search_results = FailurePlaceholder(http[c].resp.error)
            /\ http[c].resp.message \in {"Search service unavailable",
                                         "Failed to generate recommendations"}

\* C7: every search dispatch that succeeds adds exactly one history entry of
\* the requesting user with the session's query, the answer map sent to the
\* search and the returned result list.
C7_SucceededSearchRecorded ==
    [][\A c \in Clients :
          (/\ ClientUser(c) # ""
           /\ http[c].pc = "searching" /\ http'[c].pc = "idle"
           /\ http'[c].resp.status = 200) =>
              \E r \in history' \ history :
                  /\ history' \ history = {r}
                  /\ r.user_id = ClientUser(c)
                  /\ r.query = http[c].searchBody.query
                  /\ r.answers = http[c].searchBody.answers
                  /\ r.search_results = http'[c].resp.searchResults]_vars

\* C9: a generate-questions or submit-answers request without a bearer
\* credential is answered 401; it creates no session and dispatches no search.
C9_NoCredentialRejected ==
    \A c \in Clients :
        ClientHeader(c) = "" =>
            /\ http[c].pc # "searching"
            /\ http[c].route \in {"/api/questions", "/submit-answers"} =>
                    http[c].resp.status = 401

----------------------------------------------------------------------------
(* Properties of the Session Store                                         *)

\* this step ends a getSession(sid) call of p
GetSessionReturns(p, sid) ==
    /\ store[p] # store'[p]
    /\ store'[p].pc = "idle" /\ store'[p].op = "getSession" /\ store'[p].sid = sid
    /\ store[p].pc \in {"idle", "purging"}
    /\ store[p].pc = "purging" => store[p].op = "getSession" /\ store[p].sid = sid

\* the row of sid is past its expires_at
PastExpiry(sid) ==
    sid \in DOMAIN user_sessions /\ clock > user_sessions[sid].expires_at

----------------------------------------------------------------------------
(* Properties of History Retention                                         *)

\* C5: once all concurrent appends of a user have returned, the user's
\* stored entry count is at most the cap.
C5_CapAfterConcurrentAppends ==
    (\A p \in HistCallers : hist[p].pc = "idle") =>
        \A u \in Users : Cardinality(RowsOf(history, u)) <= HISTORY_CAP

\* C8: saveSearchHistory never throws: a failed write (no client, insert
\* error, exception) is reported as the boolean false and nothing else, and
\* it leaves no row of the call behind.
C8_SaveNeverThrows ==
    \A p \in HistCallers :
        /\ hist[p].ret \in {"none", "true", "false"}
        /\ hist[p].ret = "false" => hist[p].pc = "idle" /\ hist[p].row = NoRow

\* a write failed although the client was available (insert error or exception)
C8_Witness ==
    \E p \in HistCallers : hist[p].ret = "false" /\ ClientAvailable /\ history # {}

----------------------------------------------------------------------------
(* Properties of the auth middleware                                       *)

\* C10: when requireAuth has handled a request that carried a credential,
\* with the identity provider reachable and answering that the credential is
\* invalid or expired, the response is 401 and the request neither continues
\* (next is not called) nor gets a degraded identity.
C10_InvalidCredentialRejected ==
    \A r \in AuthRequests :
        auth[r].pc = "done" /\ auth[r].token # "" /\ auth[r].lookup = "rejected" =>
            /\ auth[r].status = 401
            /\ ~auth[r].next
            /\ auth[r].user = NoUser

\* an expired token was presented, the provider rejected it and 401 was sent
C10_Witness ==
    \E r \in AuthRequests :
        /\ auth[r].pc = "done" /\ auth[r].header = "Bearer tok_old"
        /\ auth[r].lookup = "rejected" /\ auth[r].status = 401

\* the identity provider could not be reached for the request r: there is no
\* client (configuration missing), or the lookup failed in transport
ProviderUnreachable(r) ==
    \/ ~ClientAvailable
    \/ auth[r].lookup \in {"threw", "unreachable"}

\* C11: a request that carried a credential while the identity provider could
\* not be reached (configuration missing or lookup transport failure) is not
\* rejected: it continues with the identity { id: "", isDegraded: true }.
C11_UnreachableProviderDegrades ==
    \A r \in AuthRequests :
        auth[r].pc = "done" /\ auth[r].token # "" /\ ProviderUnreachable(r) =>
            /\ auth[r].next
            /\ auth[r].user = ReqUser("", TRUE)

----------------------------------------------------------------------------
(* Properties of question intake and of the life of a session              *)

\* every session of the server was created at hour 0 (NextLifecycle), so it
\* is past its TTL, in whatever time zone it was created, once the clock is
\* more than an hour past it
SessionsExpired == clock > TTL_HOURS + 1

\* what a client is answered for a session identifier that never existed
NotFoundResp == [NoResp EXCEPT !.status = 404, !.error = "Session not found"]

\* client c's last request was a generate-questions that returned a session
GotSession(c) ==
    /\ http[c].pc = "idle" /\ http[c].route = "/api/questions"
    /\ http[c].resp.status = 200 /\ http[c].resp.sessionId # ""

\* C12: no stored session holds a question list that violates the Question
\* schema, and no generate-questions response hands one out.
C12_MalformedNeverStored ==
    /\ \A s \in DOMAIN userSessions : QuestionsResponseSchema(userSessions[s].questions)
    /\ \A c \in Clients : GotSession(c) => QuestionsResponseSchema(http[c].resp.questions)

\* C13: a session returned by generate-questions stays readable while its TTL
\* has not elapsed, also when the process has been restarted since.
C13_SessionsSurviveRestart ==
    \A c \in Clients :
        GotSession(c) /\ ~SessionsExpired => http[c].resp.sessionId \in DOMAIN userSessions

\* C15: a submit-answers stores answers and dispatches a search only for a
\* session that exists and has not expired.
C15_ExpiredSubmitNotFound ==
    [][\A c \in Clients :
          http[c].pc = "idle" /\ http'[c].pc = "searching" =>
              /\ http'[c].sessionId \in DOMAIN userSessions
              /\ ~SessionsExpired]_vars

\* C16: once every session has expired, a read of or a submission to any
\* session identifier is answered exactly as for an identifier that never
\* existed.
C16_ExpiredLooksLikeNeverExisted ==
    [][\A c \in Clients :
          (/\ SessionsExpired
           /\ http[c].pc = "idle" /\ http'[c] # http[c]
           /\ http'[c].route \in {"/api/widget", "/submit-answers"}) =>
              http'[c].pc = "idle" /\ http'[c].resp = NotFoundResp]_vars

\* C18: with the store unavailable no generate-questions request is answered
\* with a session.
C18_StoreFailureFailsRequest ==
    \A c \in Clients : ~ClientAvailable => ~GotSession(c)

\* C20: the session returned to an authenticated generate-questions request
\* has a row in the store whose owner is the requester and whose expiry is set.
C20_SessionOwnedByRequester ==
    \A c \in Clients :
        (ClientAvailable /\ ClientUser(c) # "" /\ GotSession(c)) =>
            /\ http[c].resp.sessionId \in DOMAIN user_sessions
            /\ user_sessions[http[c].resp.sessionId].user_id = ClientUser(c)

----------------------------------------------------------------------------
(* Properties of createSession                                             *)

\* this step is a createSession of p that wrote the row of sid
CreatedRow(p, sid) ==
    /\ store[p].pc = "idle" /\ store'[p] # store[p]
    /\ store'[p].op = "createSession" /\ store'[p].sid = sid
    /\ store'[p].ret = "true"

\* C17: every row createSession writes has an empty answer map, current
\* question index 0 and expires_at = creation time + 24 hours.
C17_NewRowExpiresAfterTTL ==
    [][\A p \in StoreCallers, sid \in StoreSids :
          CreatedRow(p, sid) =>
              /\ sid \in DOMAIN user_sessions'
              /\ user_sessions'[sid].answers = EmptyObj
              /\ user_sessions'[sid].current_question_index = 0
              /\ user_sessions'[sid].expires_at = clock + TTL_HOURS]_vars

\* C19: a session read back before its expiry carries the question list and
\* the query it was created with: same questions, same order.
C19_RoundTrip ==
    \A p \in StoreCallers :
        (store[p].pc = "idle" /\ store[p].op = "getSession" /\ store[p].ret = "session") =>
            /\ store[p].data.questions = QuestionsOf(store[p].sid)
            /\ store[p].data.originalQuery = QueryOf(store[p].sid)
            /\ store[p].data.answers = EmptyObj
            /\ store[p].data.currentQuestionIndex = 0

\* s2, created with three questions, was read back
C19_Witness ==
    \E p \in StoreCallers :
        /\ store[p].pc = "idle" /\ store[p].op = "getSession" /\ store[p].ret = "session"
        /\ store[p].sid = "s2" /\ Len(store[p].data.questions) = 3

----------------------------------------------------------------------------
(* Properties of updateSessionAnswers on expired sessions                  *)

\* this step begins an updateSessionAnswers(sid, ...) call of p
UpdateBegins(p, sid) ==
    /\ store[p].pc = "idle" /\ store'[p] # store[p]
    /\ store'[p].op = "updateSessionAnswers" /\ store'[p].sid = sid

\* this step is the purge of an updateSessionAnswers call that found the row
\* of its session expired
UpdatePurges(p) ==
    /\ store[p].pc = "purging" /\ store[p].op = "updateSessionAnswers"
    /\ store'[p] # store[p]

\* no row is written or created by this step (rows may be deleted)
NoRowWritten ==
    \A sid \in DOMAIN user_sessions' :
        sid \in DOMAIN user_sessions /\ user_sessions'[sid] = user_sessions[sid]

\* C14: an updateSessionAnswers called on a session past its expires_at
\* never reaches its write: it writes and creates no row and returns false.
\* The expires_at of an expired row is never changed and the clock never goes
\* back, and every read of it returns null: it is never readable again.
C14_ExpiredNeverWrittenOrRevived ==
    [][/\ \A p \in StoreCallers, sid \in StoreSids :
            UpdateBegins(p, sid) /\ PastExpiry(sid) =>
                /\ store'[p].pc # "writing"
                /\ store'[p].pc = "idle" => store'[p].ret = "false"
                /\ NoRowWritten
       /\ \A p \in StoreCallers :
            UpdatePurges(p) =>
                /\ store'[p].pc = "idle" /\ store'[p].ret = "false"
                /\ NoRowWritten
       /\ \A sid \in StoreSids :
            PastExpiry(sid) =>
                /\ clock' >= clock
                /\ sid \in DOMAIN user_sessions' =>
                       user_sessions'[sid].expires_at = user_sessions[sid].expires_at
                /\ \A p \in StoreCallers :
                       GetSessionReturns(p, sid) => store'[p].ret = "null"]_vars

\* an update found its session expired, purged the row and returned false
C14_Witness ==
    \E p \in StoreCallers :
        /\ store[p].pc = "idle" /\ store[p].op = "updateSessionAnswers"
        /\ store[p].expired /\ store[p].ret = "false"
        /\ store[p].sid \notin DOMAIN user_sessions

----------------------------------------------------------------------------
(* Properties of ownership                                                 *)

\* user whose request the service call of p serves; the sessionService
\* functions are not passed it
RequestUser(p) == IF p = "p1" THEN "u1" ELSE "u2"

\* C21: no service call made for one user reads, updates or deletes the
\* session row of another user.
C21_OnlyOwnerTouchesSession ==
    [][\A p \in StoreCallers, sid \in StoreSids :
          (/\ sid \in DOMAIN user_sessions
           /\ user_sessions[sid].user_id # RequestUser(p)
           /\ store'[p] # store[p] /\ store'[p].sid = sid) =>
              /\ sid \in DOMAIN user_sessions'
              /\ user_sessions'[sid] = user_sessions[sid]
              /\ store'[p].ret # "session"]_vars

----------------------------------------------------------------------------
(* Properties of concurrent submissions and of the search dispatch         *)

\* this step is a submit-answers of c that reached the dispatch for sid
Dispatches(c, sid) ==
    /\ http[c].pc = "idle" /\ http'[c].pc = "searching"
    /\ http'[c].sessionId = sid

\* C22: when a submit-answers is handled while another request on the same
\* session is still in flight, the stored answer map afterwards holds every
\* key stored before it (those of the request in flight included) and is the
\* map this request dispatches: no recognized answer of either is lost.
C22_ConcurrentSubmitsAdditive ==
    [][\A c \in Clients, d \in Clients :
          (/\ c # d
           /\ http[d].pc = "searching" /\ http[d].sessionId \in DOMAIN userSessions
           /\ Dispatches(c, http[d].sessionId)) =>
              LET sid == http[d].sessionId
                  old == userSessions[sid].answers
                  new == userSessions'[sid].answers
              IN /\ DOMAIN old \subseteq DOMAIN new
                 /\ new = http'[c].searchBody.answers]_vars

\* c2 submitted {q2: B} and, with that request in flight, c1 submitted
\* {q1: A}: the stored map holds both
C22_Witness ==
    /\ http["c2"].pc = "searching" /\ http["c2"].sessionId = "s1"
    /\ http["c2"].searchBody.answers = MapSet(EmptyObj, "q2", "B")
    /\ http["c1"].pc = "searching" /\ http["c1"].sessionId = "s1"
    /\ "s1" \in DOMAIN userSessions
    /\ userSessions["s1"].answers = MapSet(MapSet(EmptyObj, "q1", "A"), "q2", "B")

\* this step answers a generate-questions of c with a failure
GenerationFails(c) ==
    /\ http[c].pc = "idle" /\ http'[c].pc = "idle" /\ http'[c] # http[c]
    /\ http'[c].route = "/api/questions" /\ http'[c].resp.status = 500

\* this step answers the search of c with a failure
SearchFails(c) ==
    /\ http[c].pc = "searching" /\ http'[c].pc = "idle"
    /\ http'[c].resp.status = 500

\* C24: a failed question generation and a failed search dispatch leave every
\* session as it was: none is created, deleted or changed.
C24_FailuresKeepSessions ==
    [][\A c \in Clients :
          GenerationFails(c) \/ SearchFails(c) => userSessions' = userSessions]_vars

\* a search on s1 failed and a generation failed; s1 is there with its answer
C24_Witness ==
    /\ SearchDone("c2") /\ http["c2"].resp.status = 500 /\ http["c2"].sessionId = "s1"
    /\ http["c1"].pc = "idle" /\ http["c1"].route = "/api/questions"
    /\ http["c1"].resp.status = 500
    /\ "s1" \in DOMAIN userSessions
    /\ userSessions["s1"].answers = MapSet(EmptyObj, "q1", "A")

\* C26: the first thing that happens to a dispatched submit-answers is its
\* response: 200 with the completion message or 500 with a failure message,
\* never both and never a second dispatch.
C26_OneSearchOneOutcome ==
    [][\A c \in Clients :
          http[c].pc = "searching" /\ http'[c] # http[c] =>
              /\ http'[c].pc = "idle" /\ http'[c].route = "/submit-answers"
              /\ http'[c].sessionId = http[c].sessionId
              /\ \/ /\ http'[c].resp.status = 200
                    /\ http'[c].resp.message = "Answers received and search completed!"
                 \/ /\ http'[c].resp.status = 500
                    /\ http'[c].resp.message \in {"Search service unavailable",
                                                  "Failed to generate recommendations"}
                    /\ http'[c].resp.searchResults = <<>>]_vars

\* a search was answered with a failure
C26_Witness ==
    \E c \in Clients :
        SearchDone(c) /\ http[c].resp.status = 500
                      /\ http[c].resp.message = "Search service unavailable"

C29_SearchBodyCarriesSession ==
    [][\A c \in Clients, sid \in SessionIds :
          Dispatches(c, sid) /\ sid \in DOMAIN userSessions =>
              LET body == http'[c].searchBody IN
              /\ body.query = userSessions[sid].originalQuery
              /\ body.questions = userSessions[sid].questions
              /\ body.answers = userSessions'[sid].answers
              /\ DOMAIN userSessions[sid].answers \subseteq DOMAIN body.answers
              /\ DOMAIN body.answers \subseteq QuestionIds(body.questions)
              /\ http'[c].warned \cap DOMAIN body.answers = {}]_vars

\* a submission with the unknown key zz was dispatched on top of a stored q2
C29_Witness ==
    \E c \in Clients :
        /\ http[c].pc = "searching" /\ http[c].warned = {"zz"}
        /\ DOMAIN http[c].searchBody.answers = {"q1", "q2"}
        /\ Len(http[c].searchBody.questions) = 2

----------------------------------------------------------------------------
(* Appends whose creation times tie                                        *)

OverlapUntil == 2

\* h1 appends one entry after the other; while its first transactions are
\* open, h2 appends too and may get the same NOW()
NextTies ==
    \/ \E outcome \in StoreOutcomes : SaveInsert("h1", DefaultEntry, outcome, MaxAppends)
    \/ \E entry \in HistEntries :
            nextRowId <= MaxVaried /\ SaveInsert("h1", entry, "ok", MaxAppends)
    \/ \E outcome \in StoreOutcomes :
            /\ hist["h1"].pc = "inserted" /\ nextRowId <= OverlapUntil
            /\ SaveInsert("h2", DefaultEntry, outcome, MaxAppends)
    \/ \E p \in HistCallers : SaveCommit(p)

SpecTies == Init /\ [][NextTies]_vars

\* C23: the prune of an append keeps its own entry and, among the user's
\* entries of one creation time, purges the earlier-inserted first: no purged
\* entry was inserted after a kept entry of the same creation time.
C23_TiesPurgedInInsertionOrder ==
    \A p \in HistCallers :
        hist[p].pc = "inserted" =>
            LET row == hist[p].row
                kept == RowsOf(history \cup {row}, row.user_id) \ hist[p].deletes
            IN /\ row \in kept
               /\ \A d \in hist[p].deletes, k \in kept :
                      d.created_at = k.created_at => d.id < k.id

----------------------------------------------------------------------------
(* Properties of the stored row's fields, of deletion and of the expiry edge *)

\* this step is the UPDATE of an updateSessionAnswers call on sid
AnswersWritten(sid) ==
    \E p \in StoreCallers :
        /\ store[p].pc = "writing" /\ store[p].op = "updateSessionAnswers"
        /\ store[p].sid = sid /\ store'[p].ret = "true"

\* C25: while a session's row exists no step changes its identifier, owner,
\* query, question list, created_at or expires_at; its answers and updated_at
\* change only in the UPDATE of updateSessionAnswers.
C25_OnlyAnswersAreWritten ==
    [][\A sid \in (DOMAIN user_sessions) \cap (DOMAIN user_sessions') :
          LET old == user_sessions[sid]
              new == user_sessions'[sid]
          IN /\ new.session_id = old.session_id /\ new.user_id = old.user_id
             /\ new.original_query = old.original_query
             /\ new.questions = old.questions
             /\ new.created_at = old.created_at /\ new.expires_at = old.expires_at
             /\ new.current_question_index = old.current_question_index
             /\ (new.answers # old.answers \/ new.updated_at # old.updated_at)
                    => AnswersWritten(sid)]_vars

\* s1 was updated an hour after its creation: only answers and updated_at moved
C25_Witness ==
    /\ "s1" \in DOMAIN user_sessions
    /\ user_sessions["s1"].answers = MapSet(EmptyObj, "q1", "A")
    /\ user_sessions["s1"].updated_at = user_sessions["s1"].created_at + 1
    /\ user_sessions["s1"].expires_at = user_sessions["s1"].created_at + TTL_HOURS
    /\ user_sessions["s1"].questions = <<Q1, Q2>>
    /\ store["p1"].op = "updateSessionAnswers" /\ store["p1"].ret = "true"

\* C28: a deleteSession that the store carries out without error returns true
\* whether or not the identifier has a row; afterwards the identifier has no
\* row, every other row is as before, and a store without the row is left as
\* it was, so a second application changes nothing more.
C28_DeleteIdempotent ==
    [][\A p \in StoreCallers, sid \in StoreSids :
          ClientAvailable /\ deleteSession(p, sid, "ok") =>
              /\ store'[p].ret = "true" /\ store'[p].logged = ""
              /\ sid \notin DOMAIN user_sessions'
              /\ \A x \in (DOMAIN user_sessions) \ {sid} :
                     x \in DOMAIN user_sessions' /\ user_sessions'[x] = user_sessions[x]
              /\ DOMAIN user_sessions' \subseteq DOMAIN user_sessions
              /\ sid \notin DOMAIN user_sessions => user_sessions' = user_sessions]_vars

\* p2 deleted s1 before any session was ever created, and was told true
C28_Witness ==
    /\ store["p1"] = IdleCall /\ DOMAIN user_sessions = {}
    /\ store["p2"].op = "deleteSession" /\ store["p2"].sid = "s1"
    /\ store["p2"].ret = "true" /\ store["p2"].logged = ""

\* this step is the select of a getSession(sid) of p that met no store error
ReadsSession(p, sid) ==
    /\ store[p].pc = "idle" /\ store'[p] # store[p]
    /\ store'[p].op = "getSession" /\ store'[p].sid = sid
    /\ store'[p].logged = "" /\ ClientAvailable

----------------------------------------------------------------------------
(* Reading the history                                                     *)

ReadUsers == {"u1", "u2"}

\* the appends of SpecHistory, and h2 reading a user's history between them
NextRead ==
    \/ \E outcome \in StoreOutcomes : SaveInsert("h1", DefaultEntry, outcome, MaxAppends)
    \/ \E entry \in HistEntries :
            nextRowId <= MaxVaried /\ SaveInsert("h1", entry, "ok", MaxAppends)
    \/ \E outcome \in StoreOutcomes :
            /\ hist["h1"].pc = "inserted" /\ nextRowId > OverlapFrom
            /\ SaveInsert("h2", DefaultEntry, outcome, MaxAppends)
    \/ \E p \in HistCallers : SaveCommit(p)
    \/ \E u \in ReadUsers, outcome \in StoreOutcomes : getSearchHistory("h2", u, outcome)

SpecRead == Init /\ [][NextRead]_vars

\* this step is a getSearchHistory(u) of p returning
ReadsHistory(p) ==
    /\ hist[p].pc = "idle" /\ hist'[p].pc = "idle"
    /\ hist'[p] # hist[p] /\ hist'[p].ret \in {"list", "null"}

----------------------------------------------------------------------------
(* Properties of the stored history entry                                  *)

\* C32: the row an append inserts holds the entry's search_results whenever
\* the entry carries them (an empty list included), flagged failed or not;
\* the failure placeholder when it carries none and is flagged failed; and
\* no search_results when it carries none and is not flagged failed.
C32_PlaceholderOnlyWithoutResults ==
    [][\A p \in HistCallers, entry \in HistEntries :
          ClientAvailable /\ SaveInsert(p, entry, "ok", MaxAppends) =>
              LET row == hist'[p].row IN
              /\ entry.hasResults =>
                     row.hasResults /\ row.search_results = entry.search_results
              /\ ~entry.hasResults /\ entry.failed =>
                     /\ row.hasResults
                     /\ row.search_results =
                            <<[title |-> "Search Failed",
                               description |-> IF entry.error_message # ""
                                               THEN entry.error_message
                                               ELSE "Search service returned an error",
                               url |-> "", relevance |-> 0]>>
              /\ ~entry.hasResults /\ ~entry.failed =>
                     ~row.hasResults /\ row.search_results = <<>>]_vars

\* the history holds a row with the placeholder, a row with an empty result
\* list of a failed entry, and a row with results
C32_Witness ==
    /\ \E r \in history : /\ r.search_results # <<>>
                          /\ r.search_results[1].title = "Search Failed"
                          /\ r.search_results[1].description = "tavily down"
    /\ \E r \in history : r.hasResults /\ r.search_results = <<>>
    /\ \E r \in history : r.search_results = <<R1>>

----------------------------------------------------------------------------
(* Properties of the two authentication middlewares                        *)

\* requests pass through optionalAuth
NextOptional ==
    \/ \E r \in AuthRequests, header \in AuthHeaders : OptionalAuthBegin(r, header)
    \/ \E r \in AuthRequests, transport \in Transports : OptionalAuthFinish(r, transport)

SpecOptional == Init /\ [][NextOptional]_vars

\* C33: optionalAuth sends no response at any point; when it has ended it has
\* called next exactly once, whatever the header and the outcome of the
\* validation, and the request has a user exactly when the provider vouched
\* for the token.
C33_OptionalAuthNeverRejects ==
    \A r \in AuthRequests :
        /\ auth[r].sent = 0 /\ auth[r].status = 0
        /\ auth[r].pc = "optValidating" => auth[r].nexts = 0 /\ ~auth[r].user.set
        /\ auth[r].pc = "optDone" =>
              /\ auth[r].nexts = 1
              /\ auth[r].user.set <=>
                    (ClientAvailable /\ auth[r].token # "" /\ auth[r].lookup \in Users)
              /\ auth[r].user.set => auth[r].user.id = auth[r].lookup

\* one request went on with a bad token and no user, the other with a user
C33_Witness ==
    /\ auth["r1"].pc = "optDone" /\ auth["r1"].header = "Bearer tok_bad"
    /\ auth["r1"].lookup = "rejected" /\ auth["r1"].nexts = 1 /\ ~auth["r1"].user.set
    /\ auth["r2"].pc = "optDone" /\ auth["r2"].user.set /\ auth["r2"].user.id = "u1"

\* C34: when requireAuth has ended it has either sent one 401 and not called
\* next, or called next once with req.user set and sent nothing; until then
\* it has done neither.
C34_RejectOrContinue ==
    \A r \in AuthRequests :
        /\ auth[r].pc = "validating" => auth[r].sent = 0 /\ auth[r].nexts = 0
        /\ auth[r].pc = "done" =>
              \/ /\ auth[r].sent = 1 /\ auth[r].status = 401 /\ auth[r].nexts = 0
                 /\ ~auth[r].user.set
              \/ /\ auth[r].sent = 0 /\ auth[r].nexts = 1 /\ auth[r].user.set

\* one request was answered 401, the other went on
C34_Witness ==
    /\ auth["r1"].pc = "done" /\ auth["r1"].status = 401 /\ auth["r1"].token # ""
    /\ auth["r2"].pc = "done" /\ auth["r2"].nexts = 1 /\ auth["r2"].user.id = "u1"

\* C35: an identity attached by requireAuth is degraded exactly when its
\* identifier is the empty string; getUserId gives null for a degraded and
\* for an absent identity, and the identifier otherwise.
C35_DegradedIffEmptyId ==
    \A r \in AuthRequests :
        auth[r].pc = "done" =>
            /\ auth[r].user.set => (auth[r].user.isDegraded <=> auth[r].user.id = "")
            /\ (~auth[r].user.set \/ auth[r].user.isDegraded) =>
                   getUserId(auth[r].user) = "null"
            /\ (auth[r].user.set /\ ~auth[r].user.isDegraded) =>
                   getUserId(auth[r].user) \in Users

\* a request with a token got the degraded identity, for which getUserId
\* gives null
C35_Witness ==
    \E r \in AuthRequests :
        /\ auth[r].pc = "done" /\ auth[r].token = "tok_u1"
        /\ auth[r].user = ReqUser("", TRUE) /\ getUserId(auth[r].user) = "null"

----------------------------------------------------------------------------
(* Properties of reads, purges and writes that interleave                  *)

\* this step belongs to a getSession of p (called directly or as the
\* existence check of updateSessionAnswers): its select, or its purge
GetSessionStep(p) ==
    /\ store'[p] # store[p]
    /\ \/ store[p].pc = "idle" /\ store'[p].op \in {"getSession", "updateSessionAnswers"}
       \/ store[p].pc = "purging"

\* C36: a step of getSession creates no row and leaves every row as it was,
\* except that its purge may remove the row of the identifier it was called
\* with, and only when that row is past its expires_at.
C36_ReadKeepsLiveRows ==
    [][\A p \in StoreCallers :
          GetSessionStep(p) =>
              /\ DOMAIN user_sessions' \subseteq DOMAIN user_sessions
              /\ \A sid \in DOMAIN user_sessions :
                    \/ /\ sid \in DOMAIN user_sessions'
                       /\ user_sessions'[sid] = user_sessions[sid]
                    \/ /\ sid \notin DOMAIN user_sessions'
                       /\ store[p].pc = "purging" /\ store[p].expired
                       /\ sid = store[p].sid
                       /\ clock > user_sessions[sid].expires_at]_vars

\* after a TTL had passed and s2 was gone, a read of the live session s1 hit
\* a store error: null was returned and the row is there
C36_Witness ==
    /\ store["p1"].op = "getSession" /\ store["p1"].sid = "s1"
    /\ store["p1"].logged = "Error getting session" /\ store["p1"].ret = "null"
    /\ "s1" \in DOMAIN user_sessions /\ clock <= user_sessions["s1"].expires_at
    /\ clock > TTL_HOURS /\ "s2" \notin DOMAIN user_sessions

\* C37: a getSession that finds the row past its expires_at returns
\* not-found whether or not its delete succeeds; a row past its expires_at
\* stays so for as long as it exists; and a session is returned only from a
\* row that is not past its expires_at.
C37_ExpiredNeverReturned ==
    [][\A p \in StoreCallers, sid \in StoreSids :
          /\ (PastExpiry(sid) /\ sid \in DOMAIN user_sessions') =>
                 clock' > user_sessions'[sid].expires_at
          /\ GetSessionReturns(p, sid) =>
                 /\ (store[p].pc = "purging" \/ PastExpiry(sid)) => store'[p].ret = "null"
                 /\ store'[p].ret = "session" =>
                        /\ sid \in DOMAIN user_sessions
                        /\ clock <= user_sessions[sid].expires_at
                        /\ store'[p].data = ToSessionData(user_sessions[sid])]_vars

\* the delete of an expired row failed: the read returned not-found and the
\* row, still expired, is in the store
C37_Witness ==
    \E p \in StoreCallers :
        /\ store[p].pc = "idle" /\ store[p].op = "getSession"
        /\ store[p].expired /\ store[p].logged = "Error deleting session"
        /\ store[p].ret = "null" /\ PastExpiry(store[p].sid)

----------------------------------------------------------------------------
(* Properties of rows owned by others and of identifiers in use            *)

\* C38: the stored entries of a user change only when an append of that
\* same user commits: an append for one user, its prune included, leaves
\* the entries of every other user as they were.
C38_AppendKeepsOtherUsersRows ==
    [][\A u \in Users :
          RowsOf(history', u) # RowsOf(history, u) =>
              \E p \in HistCallers :
                  /\ hist[p].pc = "inserted" /\ hist'[p].pc = "idle"
                  /\ hist[p].row.user_id = u
                  /\ \A d \in hist[p].deletes : d.user_id = u]_vars

\* u1 appended eleven entries and was pruned to ten; the entry u2 appended
\* before is still there
C38_Witness ==
    /\ nextRowId = 13
    /\ Cardinality(RowsOf(history, "u1")) = 10
    /\ Cardinality(RowsOf(history, "u2")) = 1
    /\ \A p \in HistCallers : hist[p].pc = "idle"

\* this step answers a generate-questions of c
AnswersGeneration(c) ==
    /\ http[c].pc = "idle" /\ http'[c].pc = "idle" /\ http'[c] # http[c]
    /\ http'[c].route = "/api/questions"

\* C39: a generate-questions leaves every session that exists as it was; when
\* the identifier it generated is that of an existing session the creation
\* fails: the request is not answered with that session.
C39_CreationNeverOverwrites ==
    [][\A c \in Clients :
          AnswersGeneration(c) =>
              /\ \A sid \in DOMAIN userSessions :
                     /\ sid \in DOMAIN userSessions'
                     /\ userSessions'[sid] = userSessions[sid]
              /\ http'[c].resp.status = 200 =>
                     http'[c].resp.sessionId \notin DOMAIN userSessions]_vars

\* this step ends an updateSessionAnswers call of p
UpdateReturns(p) ==
    /\ store'[p] # store[p] /\ store'[p].pc = "idle"
    /\ store'[p].op = "updateSessionAnswers"

\* C40: when an updateSessionAnswers returns true the row of its session is
\* in the store with the answer map the call was given; when it returns
\* false no stored answer map has changed.
C40_UpdateTrueMeansStored ==
    [][\A p \in StoreCallers :
          UpdateReturns(p) =>
              /\ store'[p].ret = "true" =>
                     /\ store'[p].sid \in DOMAIN user_sessions'
                     /\ user_sessions'[store'[p].sid].answers = store[p].answers
              /\ store'[p].ret = "false" =>
                     \A sid \in (DOMAIN user_sessions) \cap (DOMAIN user_sessions') :
                         user_sessions'[sid].answers = user_sessions[sid].answers]_vars

====
